---- MODULE Spec2Model ----
(***************************************************************************)
(* Model of the path-scoped storage engine of tarolas: the path resolver   *)
(* (prepareAbsolutePath), the file engine (fileWrite, fileAppend,          *)
(* readFile) and the directory engine (directoryContent, createDirectory,  *)
(* deleteDirectory), over a model of the backing filesystem.               *)
(*                                                                         *)
(* Strings are sequences of one-character strings, so that the lexical     *)
(* path functions are computed character by character as Go computes them. *)
(* File content is a sequence of bytes (0..255); an encoded stream is a    *)
(* sequence of base64 symbols (0..63, and Pad for '=').                    *)
(***************************************************************************)
EXTENDS Integers, Sequences, FiniteSets, TLC

VARIABLES fs, last, prev, running

vars == <<fs, last, prev, running>>

(***************************************************************************)
(* Bounds of the model.                                                    *)
(***************************************************************************)
\* longest raw name handed to the path resolver
MaxNameLen == 5
\* longest decoded request body
MaxBodyLen == 2
\* longest file the file engine grows by appending
MaxFileLen == 3

(***************************************************************************)
(* Characters and strings.                                                 *)
(***************************************************************************)
Separator == "/"

Alphabet == {"/", ".", "a", "b"}

RECURSIVE StringsOfLen(_)
StringsOfLen(n) ==
    IF n = 0 THEN {<<>>}
    ELSE {Append(s, c) : s \in StringsOfLen(n - 1), c \in Alphabet}

StringsUpTo(n) == UNION {StringsOfLen(k) : k \in 0..n}

IsPathSeparator(c) == c = Separator

HasPrefix(s, prefix) ==
    /\ Len(prefix) <= Len(s)
    /\ SubSeq(s, 1, Len(prefix)) = prefix

(***************************************************************************)
(* filepath.Clean (Unix): the lexical cleaning loop over the lazy buffer   *)
(* `out`; r is the 1-based read position, dotdot the length of the prefix  *)
(* of out that a ".." element may not remove.                              *)
(***************************************************************************)
RECURSIVE ElementEnd(_, _)
ElementEnd(path, r) ==
    IF r <= Len(path) /\ ~IsPathSeparator(path[r]) THEN ElementEnd(path, r + 1) ELSE r

RECURSIVE Backtrack(_, _, _)
Backtrack(out, w, dotdot) ==
    IF w > dotdot /\ ~IsPathSeparator(out[w + 1])
    THEN Backtrack(out, w - 1, dotdot)
    ELSE SubSeq(out, 1, w)

RECURSIVE CleanLoop(_, _, _, _, _)
CleanLoop(path, r, out, dotdot, rooted) ==
    LET n == Len(path) IN
    IF r > n THEN out
    ELSE IF IsPathSeparator(path[r])
         THEN CleanLoop(path, r + 1, out, dotdot, rooted)
    ELSE IF path[r] = "." /\ (r = n \/ IsPathSeparator(path[r + 1]))
         THEN CleanLoop(path, r + 1, out, dotdot, rooted)
    ELSE IF /\ path[r] = "."
            /\ r + 1 <= n
            /\ path[r + 1] = "."
            /\ (r + 1 = n \/ IsPathSeparator(path[r + 2]))
         THEN IF Len(out) > dotdot
              THEN CleanLoop(path, r + 2, Backtrack(out, Len(out) - 1, dotdot),
                             dotdot, rooted)
              ELSE IF ~rooted
                   THEN LET o2 == (IF Len(out) > 0 THEN Append(out, Separator) ELSE out)
                                      \o <<".", ".">>
                        IN  CleanLoop(path, r + 2, o2, Len(o2), rooted)
                   ELSE CleanLoop(path, r + 2, out, dotdot, rooted)
    ELSE LET o2 == IF (rooted /\ Len(out) # 1) \/ (~rooted /\ Len(out) # 0)
                   THEN Append(out, Separator) ELSE out
             e  == ElementEnd(path, r)
         IN  CleanLoop(path, e, o2 \o SubSeq(path, r, e - 1), dotdot, rooted)

Clean(path) ==
    IF path = <<>> THEN <<".">>
    ELSE LET rooted == IsPathSeparator(path[1])
             out    == IF rooted
                       THEN CleanLoop(path, 2, <<Separator>>, 1, TRUE)
                       ELSE CleanLoop(path, 1, <<>>, 0, FALSE)
         IN  IF out = <<>> THEN <<".">> ELSE out

\* filepath.Join of two elements: the first non-empty element onwards is
\* joined with the separator and the result is cleaned.
Join(a, b) ==
    IF a # <<>> THEN Clean(a \o <<Separator>> \o b)
    ELSE IF b # <<>> THEN Clean(b)
    ELSE <<>>

RECURSIVE StripTrailingSeparators(_)
StripTrailingSeparators(path) ==
    IF Len(path) > 0 /\ IsPathSeparator(path[Len(path)])
    THEN StripTrailingSeparators(SubSeq(path, 1, Len(path) - 1))
    ELSE path

\* index of the last separator of path at or before i (0 when there is none)
RECURSIVE LastSeparator(_, _)
LastSeparator(path, i) ==
    IF i >= 1 /\ ~IsPathSeparator(path[i]) THEN LastSeparator(path, i - 1) ELSE i

\* filepath.Base
Base(path) ==
    IF path = <<>> THEN <<".">>
    ELSE LET p == StripTrailingSeparators(path)
             i == LastSeparator(p, Len(p))
             b == SubSeq(p, i + 1, Len(p))
         IN  IF b = <<>> THEN <<Separator>> ELSE b

\* filepath.Dir
Dir(path) == Clean(SubSeq(path, 1, LastSeparator(path, Len(path))))

(***************************************************************************)
(* Configuration: the root directory, given as a clean absolute path.      *)
(***************************************************************************)
RootDirectory == <<"/", "r">>

RootSymbol == <<"/">>

\* a path is the root or lies below it
WithinRoot(path) ==
    \/ path = RootDirectory
    \/ HasPrefix(path, Append(RootDirectory, Separator))

(***************************************************************************)
(* Path resolver.                                                          *)
(***************************************************************************)
prepareAbsolutePath_JoinOnly(root, name) == Join(root, name)

prepareAbsolutePath(root, name) == Join(root, Clean(name))

\* names of the file engine's requests: the root, a file below it (written
\* with a redundant element), and a name below that file
FileNames ==
    { <<"/">>, <<"/", ".", "/", "a">>, <<"/", "a", "/", "b">> }

\* names of the directory engine's requests: the root (plain and through
\* ".."), and entries one and two levels below it
DirNames ==
    { <<"/">>, <<"/", "a", "/", ".", ".">>, <<"/", "a">>, <<"/", "b">>,
      <<"/", "a", "/", "a">>, <<"/", "a", "/", "b">>, <<"/", "b", "/", "a">> }

RequestNames == FileNames \cup DirNames

\* fullName := prepareAbsolutePath(cfg, name), tabulated over the requests' names
FullName == [name \in RequestNames |-> prepareAbsolutePath(RootDirectory, name)]

(***************************************************************************)
(* base64.StdEncoding.  A symbol is the 6-bit value 0..63, or Pad.         *)
(***************************************************************************)
Pad == 64

ByteValues == {77, 255}

RECURSIVE SeqsOfLen(_, _)
SeqsOfLen(S, n) ==
    IF n = 0 THEN {<<>>}
    ELSE {Append(s, x) : s \in SeqsOfLen(S, n - 1), x \in S}

SeqsUpTo(S, n) == UNION {SeqsOfLen(S, k) : k \in 0..n}

\* the four symbols of one full three-byte group
EncodeGroup(b0, b1, b2) ==
    << b0 \div 4,
       (b0 % 4) * 16 + (b1 \div 16),
       (b1 % 16) * 4 + (b2 \div 64),
       b2 % 64 >>

\* encoder.Write: every complete three-byte group of the input is written
\* out; an incomplete last group stays in the encoder's buffer.
RECURSIVE EncodeWritten(_)
EncodeWritten(bytes) ==
    IF Len(bytes) < 3 THEN <<>>
    ELSE EncodeGroup(bytes[1], bytes[2], bytes[3])
             \o EncodeWritten(SubSeq(bytes, 4, Len(bytes)))

\* encoder.Close: the buffered incomplete group is written with padding.
EncodeFlushed(bytes) ==
    LET k == Len(bytes) % 3
        t == SubSeq(bytes, Len(bytes) - k + 1, Len(bytes))
    IN  IF k = 0 THEN <<>>
        ELSE IF k = 1
             THEN <<t[1] \div 4, (t[1] % 4) * 16, Pad, Pad>>
             ELSE <<t[1] \div 4, (t[1] % 4) * 16 + (t[2] \div 16), (t[2] % 16) * 4, Pad>>

\* the complete base64 encoding of a byte sequence
Encode(bytes) == EncodeWritten(bytes) \o EncodeFlushed(bytes)

\* base64.NewDecoder read to its end: the bytes decoded and whether the
\* stream was well formed.  Bytes decoded before a corrupt or short quantum
\* are delivered before the error.
RECURSIVE Decode(_)
Decode(stream) ==
    IF stream = <<>> THEN [bytes |-> <<>>, ok |-> TRUE]
    ELSE IF Len(stream) < 4 THEN [bytes |-> <<>>, ok |-> FALSE]
    ELSE LET q    == SubSeq(stream, 1, 4)
             rest == SubSeq(stream, 5, Len(stream))
             b0   == (q[1] * 4 + (q[2] \div 16)) % 256
             b1   == ((q[2] % 16) * 16 + (q[3] \div 4)) % 256
             b2   == ((q[3] % 4) * 64 + q[4]) % 256
         IN  IF q[1] = Pad \/ q[2] = Pad THEN [bytes |-> <<>>, ok |-> FALSE]
             ELSE IF q[3] = Pad
                  THEN [bytes |-> <<b0>>, ok |-> q[4] = Pad /\ rest = <<>>]
             ELSE IF q[4] = Pad
                  THEN [bytes |-> <<b0, b1>>, ok |-> rest = <<>>]
             ELSE LET d == Decode(rest)
                  IN  [bytes |-> <<b0, b1, b2>> \o d.bytes, ok |-> d.ok]

(***************************************************************************)
(* The backing filesystem: a function from the absolute clean paths that   *)
(* exist to their nodes.  The root directory always exists.                *)
(***************************************************************************)
DirNode == [dir |-> TRUE, data |-> <<>>]

FileNode(bytes) == [dir |-> FALSE, data |-> bytes]

EmptyRoot == [p \in {RootDirectory} |-> DirNode]

Exists(f, path) == path \in DOMAIN f

IsDir(f, path) == Exists(f, path) /\ f[path].dir

IsFile(f, path) == Exists(f, path) /\ ~f[path].dir

\* path is dir or lies below it
Below(dir, path) == path = dir \/ HasPrefix(path, Append(dir, Separator))

Subtree(f, dir) == {p \in DOMAIN f : Below(dir, p)}

\* path names an entry of the directory dir
IsChild(dir, path) ==
    /\ Len(path) > Len(dir) + 1
    /\ HasPrefix(path, Append(dir, Separator))
    /\ \A i \in (Len(dir) + 2)..Len(path) : ~IsPathSeparator(path[i])

Children(f, dir) == {p \in DOMAIN f : IsChild(dir, p)}

Without(f, gone) == [p \in DOMAIN f \ gone |-> f[p]]

With(f, path, node) == [p \in DOMAIN f \cup {path} |-> IF p = path THEN node ELSE f[p]]

\* every entry but the root has a directory as its parent
WellFormed(f) ==
    /\ IsDir(f, RootDirectory)
    /\ \A p \in DOMAIN f : WithinRoot(p) /\ (p # RootDirectory => IsDir(f, Dir(p)))

(***************************************************************************)
(* Operating system calls, each returning the filesystem it leaves and     *)
(* whether it succeeded.                                                   *)
(***************************************************************************)
\* os.OpenFile(path, O_CREATE|O_WRONLY) and os.OpenFile(path,
\* O_APPEND|O_CREATE|O_WRONLY): an absent file is created empty when its
\* parent is a directory; a present file is opened as it is.
OpenCreate(f, path) ==
    IF Exists(f, path)
    THEN [fs |-> f, ok |-> ~f[path].dir]
    ELSE IF IsDir(f, Dir(path))
         THEN [fs |-> With(f, path, FileNode(<<>>)), ok |-> TRUE]
         ELSE [fs |-> f, ok |-> FALSE]

\* os.Stat: "ok" for an entry that exists, "ENOTDIR" for a path that runs
\* through a regular file, "ENOENT" for any other absent path.
\* os.IsNotExist holds of ENOENT only.
Stat(f, path) ==
    IF Exists(f, path) THEN "ok"
    ELSE IF \E q \in DOMAIN f : ~f[q].dir /\ q # path /\ Below(q, path) THEN "ENOTDIR"
    ELSE "ENOENT"

\* a failure the operating system or the connection reports during a call
\* on an open file: none, or one at os.Open, at file.Seek, at a read of the
\* file or at a write to the response, the last two after `after` bytes
\* have been copied
Fault(at, after) == [at |-> at, after |-> after]

NoFault == Fault("none", 0)

\* write(2) of bytes at position 0 of a descriptor opened without O_APPEND
\* or O_TRUNC: the bytes replace the head of the file, the rest stays.
WriteAtStart(old, bytes) ==
    bytes \o SubSeq(old, Len(bytes) + 1, Len(old))

WriteAtEnd_Overwrite(old, bytes) == WriteAtStart(old, bytes)

\* write(2) on a descriptor opened with O_APPEND
WriteAtEnd(old, bytes) == old \o bytes

(***************************************************************************)
(* Result and error model.                                                 *)
(***************************************************************************)
ErrorDto(status, code, title) ==
    [status |-> status, code |-> code, title |-> title, detail |-> <<>>]

NoError == ErrorDto("", "", "")

errReadingDirectoryContentFailed == ErrorDto("400", "10147", "reading directory content failed")
errDirectoryAlreadyExists        == ErrorDto("400", "10237", "directory already exists")
errCreatingDirectoryFailed       == ErrorDto("400", "10152", "creating directory failed")
errCreatingDirectoriesFailed     == ErrorDto("400", "10141", "creating directories failed")
errDeletingDirectoryFailed       == ErrorDto("400", "10371", "deleting directory failed")
errDeletingFileFailed            == ErrorDto("400", "10923", "deleting file failed")
errOpeningFileForAppendFailed    == ErrorDto("400", "10347", "opening file for append failed")
errOpeningFileForWritingFailed   == ErrorDto("400", "10747", "opening file for writing failed")
errRetrievingFileInfoFailed      == ErrorDto("400", "10489", "retrieving file info failed")
errAppendingFileFailed           == ErrorDto("400", "10429", "appending file failed")
errWritingFileFailed             == ErrorDto("400", "10451", "writing file failed")
errFileNotFound                  == ErrorDto("400", "10938", "file not found")
errNotAFile                      == ErrorDto("400", "10462", "not a file")
errInvalidParameterValue         == ErrorDto("400", "10901", "invalid parameter value")
errWalkingDirectoryTreeFailed    == ErrorDto("400", "10177", "walking directory tree failed")
errOpeningFileForReadingFailed   == ErrorDto("400", "10352", "opening file for reading failed")
errReadingFileFailed             == ErrorDto("400", "10455", "reading file failed")
errSeekingFileFailed             == ErrorDto("400", "10458", "seeking file failed")
errCalculatingChecksumFailed     == ErrorDto("400", "10956", "calculating checksum failed")

errorDto(e, detail) == [e EXCEPT !.detail = detail]

\* a File value; an unset pointer field is the empty sequence
\* http.ResponseWriter: the status that was sent, the calls of WriteHeader
\* that came after it (net/http ignores them), the chunks written to the
\* body, and whether the process has ended in log.Fatal
NewResponse ==
    [wroteHeader |-> FALSE, status |-> 0, superfluous |-> 0, body |-> <<>>, fatal |-> FALSE]

WriteHeader(w, code) ==
    IF w.wroteHeader THEN [w EXCEPT !.superfluous = @ + 1]
    ELSE [w EXCEPT !.wroteHeader = TRUE, !.status = code]

\* a chunk of the body: file content as the engine wrote it, or the JSON
\* document of an error
Content(bytes) == [kind |-> "content", bytes |-> bytes, error |-> NoError]

ErrorDocument(e) == [kind |-> "errors", bytes |-> <<>>, error |-> e]

Write(w, chunk) ==
    [(IF w.wroteHeader THEN w ELSE WriteHeader(w, 200)) EXCEPT !.body = Append(@, chunk)]

FileOf(name, size, checksum, exists) ==
    [name |-> name, size |-> size, checksum |-> checksum, exists |-> exists]

\* a File value with Name and Size
File(name, size) == FileOf(name, size, <<>>, <<>>)

NoFile == File(<<>>, <<>>)

\* a Directory value
Directory(name, directories, files) ==
    [name |-> name, directories |-> directories, files |-> files]

NoDirectory == Directory(<<>>, <<>>, <<>>)

\* strconv.FormatInt(n, 10) as characters
Digit(d) == CASE d = 0 -> "0" [] d = 1 -> "1" [] d = 2 -> "2" [] d = 3 -> "3"
              [] d = 4 -> "4" [] d = 5 -> "5" [] d = 6 -> "6" [] d = 7 -> "7"
              [] d = 8 -> "8" [] d = 9 -> "9"

RECURSIVE FormatNat(_)
FormatNat(n) == IF n < 10 THEN <<Digit(n)>> ELSE Append(FormatNat(n \div 10), Digit(n % 10))

FormatInt(n) == IF n < 0 THEN <<"-">> \o FormatNat(0 - n) ELSE FormatNat(n)

(***************************************************************************)
(* File engine.  Every operation returns the filesystem it leaves and its  *)
(* result; `opens` counts the files the call opened.                       *)
(***************************************************************************)
DeferredClose_Never(opens) == 0

\* defer file.Close(), registered as soon as a file is open: the number of
\* files closed when the call returns
DeferredClose(opens) == opens

FileResult(f, err, file, opens) ==
    [fs |-> f, err |-> err, file |-> file, dir |-> NoDirectory, status |-> 0,
     out |-> <<>>, opens |-> opens, closed |-> DeferredClose(opens)]

fileWrite(f, name, body) ==
    LET fullName == FullName[name]
        o        == OpenCreate(f, fullName)
        d        == Decode(body)
        written  == With(o.fs, fullName,
                         FileNode(WriteAtStart(o.fs[fullName].data, d.bytes)))
    IN  IF ~o.ok
        THEN FileResult(f, errorDto(errOpeningFileForWritingFailed, name), NoFile, 0)
        ELSE IF d.ok
             THEN FileResult(written, NoError,
                             File(name, <<Len(written[fullName].data)>>), 1)
             ELSE FileResult(written, errorDto(errWritingFileFailed, name), NoFile, 1)

fileAppend(f, name, body) ==
    LET fullName == FullName[name]
        o        == OpenCreate(f, fullName)
        d        == Decode(body)
        written  == With(o.fs, fullName,
                         FileNode(WriteAtEnd(o.fs[fullName].data, d.bytes)))
    IN  IF ~o.ok
        THEN FileResult(f, errorDto(errOpeningFileForAppendFailed, name), NoFile, 0)
        ELSE IF d.ok
             THEN FileResult(written, NoError,
                             File(name, <<Len(written[fullName].data)>>), 1)
             ELSE FileResult(written, errorDto(errAppendingFileFailed, name), NoFile, 1)

ReadResult_HeaderFirst(f, err, status, out, opens) ==
    [fs |-> f, err |-> err, file |-> NoFile, dir |-> NoDirectory, status |-> 200,
     out |-> out, opens |-> opens, closed |-> DeferredClose(opens)]

ReadResult(f, err, status, out, opens) ==
    [fs |-> f, err |-> err, file |-> NoFile, dir |-> NoDirectory, status |-> status,
     out |-> out, opens |-> opens, closed |-> DeferredClose(opens)]

\* the size readFile copies: the requested size, cut to the end of the file
ClampedSize(fileSize, offset, size) ==
    IF offset + size > fileSize THEN fileSize - offset ELSE size

\* io.CopyN(encoder, file, size) after file.Seek(offset, 0): the bytes of
\* the window go through encoder.Write; the encoder is never closed.
StreamWindow(data, offset, size) ==
    EncodeWritten(SubSeq(data, offset + 1, offset + size))

readFile(f, name, offset, size, fault) ==
    LET fullName == FullName[name]
        fileSize == Len(f[fullName].data)
        n        == ClampedSize(fileSize, offset, size)
        st       == Stat(f, fullName)
    IN  IF st = "ENOENT"
        THEN ReadResult(f, errorDto(errFileNotFound, name), 0, <<>>, 0)
        ELSE IF st # "ok"
        THEN ReadResult(f, errorDto(errRetrievingFileInfoFailed, name), 0, <<>>, 0)
        ELSE IF f[fullName].dir
        THEN ReadResult(f, errorDto(errNotAFile, name), 0, <<>>, 0)
        ELSE IF offset < 0 \/ offset > fileSize
        THEN ReadResult(f, errorDto(errInvalidParameterValue,
                 <<"o", "f", "f", "s", "e", "t", " ", "(">> \o FormatInt(offset) \o <<")">>),
                 0, <<>>, 0)
        ELSE IF size <= 0 \/ size > fileSize
        THEN ReadResult(f, errorDto(errInvalidParameterValue,
                 <<"s", "i", "z", "e", " ", "(">> \o FormatInt(size) \o <<")">>),
                 0, <<>>, 0)
        ELSE IF fault.at = "open"
        THEN ReadResult(f, errorDto(errRetrievingFileInfoFailed, name), 0, <<>>, 0)
        ELSE IF fault.at = "seek"
        THEN ReadResult(f, errorDto(errSeekingFileFailed, name), 0, <<>>, 1)
        ELSE IF fault.at \in {"read", "send"} /\ fault.after < n
        THEN ReadResult(f, errorDto(errReadingFileFailed, name), 200,
                        StreamWindow(f[fullName].data, offset, fault.after), 1)
        ELSE ReadResult(f, NoError, 200, StreamWindow(f[fullName].data, offset, n), 1)

\* sha256 of the bytes, as a value that tells contents apart
Sum256(bytes) == <<"sha256", bytes>>

fileChecksum(f, name, fault) ==
    LET fullName == FullName[name]
        stat     == Stat(f, fullName)
    IN  IF stat = "ENOENT"
        THEN FileResult(f, errorDto(errFileNotFound, name), NoFile, 0)
        ELSE IF stat # "ok" \/ fault.at = "open"
        THEN FileResult(f, errorDto(errOpeningFileForReadingFailed, name), NoFile, 0)
        ELSE IF f[fullName].dir \/ (fault.at = "read" /\ fault.after < Len(f[fullName].data))
        THEN FileResult(f, errorDto(errCalculatingChecksumFailed, name), NoFile, 1)
        ELSE FileResult(f, NoError,
                        FileOf(name, <<Len(f[fullName].data)>>,
                               <<Sum256(f[fullName].data)>>, <<>>), 1)

\* the first file.Read of writeSharedFileContent reports io.EOF on an empty
\* file; io.Copy(w, file) writes the bytes as they are
writeSharedFileContent(f, name, fault) ==
    LET fullName == FullName[name]
        stat     == Stat(f, fullName)
        data     == f[fullName].data
    IN  IF stat = "ENOENT"
        THEN ReadResult(f, errorDto(errFileNotFound, name), 0, <<>>, 0)
        ELSE IF stat # "ok" \/ fault.at = "open"
        THEN ReadResult(f, errorDto(errOpeningFileForReadingFailed, name), 0, <<>>, 0)
        ELSE IF f[fullName].dir
        THEN ReadResult(f, errorDto(errNotAFile, name), 0, <<>>, 1)
        ELSE IF data = <<>>
        THEN ReadResult(f, errorDto(errReadingFileFailed, name), 0, <<>>, 1)
        ELSE IF fault.at = "seek"
        THEN ReadResult(f, errorDto(errSeekingFileFailed, name), 0, <<>>, 1)
        ELSE IF fault.at \in {"read", "send"} /\ fault.after < Len(data)
        THEN ReadResult(f, errorDto(errReadingFileFailed, name), 200,
                        SubSeq(data, 1, fault.after), 1)
        ELSE ReadResult(f, NoError, 200, data, 1)

(***************************************************************************)
(* Handlers of the streaming requests.                                     *)
(***************************************************************************)
\* strconv.Atoi of the status of an error
Atoi(status) == IF status = "400" THEN 400 ELSE 0

\* the response as the engine leaves it: the status if it was sent, and
\* the content written after it
Streamed(r) ==
    IF r.status = 0 THEN NewResponse
    ELSE IF r.out = <<>> THEN WriteHeader(NewResponse, r.status)
    ELSE Write(WriteHeader(NewResponse, r.status), Content(r.out))

\* writeResultError: a write that the connection refuses ends in log.Fatal
writeResultError(w, e, fault) ==
    IF fault.at = "send" THEN [WriteHeader(w, Atoi(e.status)) EXCEPT !.fatal = TRUE]
    ELSE Write(WriteHeader(w, Atoi(e.status)), ErrorDocument(e))

handlerFileRead(f, name, offset, size, fault) ==
    LET r == readFile(f, name, offset, size, fault)
    IN  [result |-> r,
         resp   |-> IF r.err # NoError THEN writeResultError(Streamed(r), r.err, fault)
                    ELSE Streamed(r)]

handlerFileShared(f, name, fault) ==
    LET r == writeSharedFileContent(f, name, fault)
    IN  [result |-> r,
         resp   |-> IF r.err # NoError THEN writeResultError(Streamed(r), r.err, fault)
                    ELSE Streamed(r)]

(***************************************************************************)
(* Directory listings.  os.ReadDir and ioutil.ReadDir return the entries   *)
(* of a directory sorted by file name.                                     *)
(***************************************************************************)
\* byte order of the characters of the alphabet
CharRank(c) == CASE c = "." -> 46 [] c = "/" -> 47 [] c = "a" -> 97 [] c = "b" -> 98
                 [] OTHER -> 114

RECURSIVE StringLess(_, _)
StringLess(s, t) ==
    IF s = <<>> THEN t # <<>>
    ELSE IF t = <<>> THEN FALSE
    ELSE IF s[1] = t[1] THEN StringLess(Tail(s), Tail(t))
    ELSE CharRank(s[1]) < CharRank(t[1])

RECURSIVE SortedByName(_)
SortedByName(paths) ==
    IF paths = {} THEN <<>>
    ELSE LET first == CHOOSE p \in paths :
                          \A q \in paths \ {p} : StringLess(Base(p), Base(q))
         IN  <<first>> \o SortedByName(paths \ {first})

\* the entries of a directory as FileInfo values, in name order
FileInfos(f, dir) ==
    LET sorted == SortedByName(Children(f, dir))
    IN  [i \in 1..Len(sorted) |->
            [name |-> Base(sorted[i]), dir |-> f[sorted[i]].dir,
             size |-> Len(f[sorted[i]].data)]]

ReadDir(f, dir) ==
    IF IsDir(f, dir) THEN [ok |-> TRUE, infos |-> FileInfos(f, dir)]
    ELSE [ok |-> FALSE, infos |-> <<>>]

Mkdir_OverExisting(f, path) ==
    IF IsDir(f, Dir(path)) THEN [fs |-> With(f, path, DirNode), ok |-> TRUE, exist |-> FALSE]
    ELSE [fs |-> f, ok |-> FALSE, exist |-> FALSE]

\* os.Mkdir: the parent must be a directory and the path must not exist
Mkdir(f, path) ==
    IF Exists(f, path) THEN [fs |-> f, ok |-> FALSE, exist |-> TRUE]
    ELSE IF IsDir(f, Dir(path)) THEN [fs |-> With(f, path, DirNode), ok |-> TRUE, exist |-> FALSE]
    ELSE [fs |-> f, ok |-> FALSE, exist |-> FALSE]

\* os.MkdirAll: nothing to do for a directory, an error for a file,
\* otherwise the parent is made first and then the path itself.
RECURSIVE MkdirAll(_, _)
MkdirAll(f, path) ==
    IF Exists(f, path) THEN [fs |-> f, ok |-> f[path].dir]
    ELSE IF ~WithinRoot(path) THEN [fs |-> f, ok |-> FALSE]
    ELSE LET parent == MkdirAll(f, Dir(path))
         IN  IF ~parent.ok THEN parent
             ELSE [fs |-> With(parent.fs, path, DirNode), ok |-> TRUE]

\* os.Remove: unlinks a file or removes an empty directory; `denied` are
\* the entries whose removal the operating system refuses.
Remove(f, path, denied) ==
    IF Exists(f, path) /\ path \notin denied /\ Children(f, path) = {}
    THEN [fs |-> Without(f, {path}), ok |-> TRUE]
    ELSE [fs |-> f, ok |-> FALSE]

\* os.RemoveAll: removes path and everything below it; an absent path is no
\* error.  What cannot be removed stays, with the directories above it.
RemoveAll(f, path, denied) ==
    LET kept == {q \in Subtree(f, path) :
                    \E d \in denied \cap Subtree(f, path) : Below(q, d)}
    IN  [fs |-> Without(f, Subtree(f, path) \ kept), ok |-> kept = {}]

(***************************************************************************)
(* Directory engine.                                                       *)
(***************************************************************************)
DirResult(f, err, dir) ==
    [fs |-> f, err |-> err, file |-> NoFile, dir |-> dir, status |-> 0,
     out |-> <<>>, opens |-> 0, closed |-> 0]

\* Directory.AddDirectory and Directory.AddFile over the entries read
RECURSIVE AddEntries(_, _, _)
AddEntries(directory, infos, i) ==
    IF i > Len(infos) THEN directory
    ELSE IF infos[i].dir
         THEN AddEntries([directory EXCEPT !.directories = Append(@, infos[i].name)],
                         infos, i + 1)
         ELSE AddEntries([directory EXCEPT !.files =
                              Append(@, File(infos[i].name, <<infos[i].size>>))],
                         infos, i + 1)

directoryContent(f, name) ==
    LET fullName == FullName[name]
        rootName == IF fullName = RootDirectory THEN RootSymbol ELSE Base(fullName)
        entries  == ReadDir(f, fullName)
    IN  IF ~entries.ok
        THEN DirResult(f, errorDto(errReadingDirectoryContentFailed, name), NoDirectory)
        ELSE DirResult(f, NoError,
                       AddEntries(Directory(rootName, <<>>, <<>>), entries.infos, 1))

createDirectory(f, name, all) ==
    LET fullName == FullName[name]
    IN  IF all
        THEN LET m == MkdirAll(f, fullName)
             IN  IF ~m.ok
                 THEN DirResult(f, errorDto(errCreatingDirectoriesFailed, name), NoDirectory)
                 ELSE DirResult(m.fs, NoError, Directory(Base(name), <<>>, <<>>))
        ELSE LET m == Mkdir(f, fullName)
             IN  IF ~m.ok
                 THEN IF m.exist
                      THEN DirResult(f, errorDto(errDirectoryAlreadyExists, name), NoDirectory)
                      ELSE DirResult(f, errorDto(errCreatingDirectoryFailed, name), NoDirectory)
                 ELSE DirResult(m.fs, NoError, Directory(name, <<>>, <<>>))

\* the path deleteDirectory removes for the entry fileInfo of the directory
\* fullName
ChildFileName(fullName, fileInfo) == prepareAbsolutePath(RootDirectory, fileInfo.name)

\* the loop of deleteDirectory over the entries read: each is removed in
\* turn, and the first failure ends the call.
RECURSIVE DeleteEntries(_, _, _, _, _)
DeleteEntries(f, fullName, infos, i, denied) ==
    IF i > Len(infos) THEN [fs |-> f, err |-> NoError]
    ELSE LET fileName == ChildFileName(fullName, infos[i])
             r        == IF infos[i].dir THEN RemoveAll(f, fileName, denied)
                                         ELSE Remove(f, fileName, denied)
         IN  IF r.ok THEN DeleteEntries(r.fs, fullName, infos, i + 1, denied)
             ELSE [fs  |-> r.fs,
                   err |-> IF infos[i].dir
                           THEN errorDto(errDeletingDirectoryFailed, fileName)
                           ELSE errorDto(errDeletingFileFailed, fileName)]

DeleteTarget_RootToo(f, fullName, name, denied) ==
    LET r == Remove(f, fullName, denied)
    IN  IF r.ok
        THEN DirResult(r.fs, NoError, Directory(Base(fullName), <<>>, <<>>))
        ELSE DirResult(f, errorDto(errDeletingDirectoryFailed, name), NoDirectory)

\* the last step of deleteDirectory: the root stays, anything else is removed
DeleteTarget(f, fullName, name, denied) ==
    IF fullName = RootDirectory
    THEN DirResult(f, NoError, Directory(RootSymbol, <<>>, <<>>))
    ELSE LET r == Remove(f, fullName, denied)
         IN  IF r.ok
             THEN DirResult(r.fs, NoError, Directory(Base(fullName), <<>>, <<>>))
             ELSE DirResult(f, errorDto(errDeletingDirectoryFailed, name), NoDirectory)

deleteDirectory(f, name, all, denied) ==
    LET fullName == FullName[name]
        entries  == ReadDir(f, fullName)
        purged   == DeleteEntries(f, fullName, entries.infos, 1, denied)
    IN  IF all /\ ~entries.ok
        THEN DirResult(f, errorDto(errReadingDirectoryContentFailed, name), NoDirectory)
        ELSE IF all /\ purged.err # NoError
        THEN DirResult(purged.fs, purged.err, NoDirectory)
        ELSE DeleteTarget(IF all THEN purged.fs ELSE f, fullName, name, denied)

(***************************************************************************)
(* File engine: existence and removal.                                     *)
(***************************************************************************)
FlagTrue == TRUE

FlagFalse == FALSE

fileExists_AbsentIsError(f, name) ==
    LET fullName == FullName[name]
    IN  IF Stat(f, fullName) # "ok"
        THEN FileResult(f, errorDto(errFileNotFound, name), NoFile, 0)
        ELSE IF f[fullName].dir
        THEN FileResult(f, errorDto(errNotAFile, name), NoFile, 0)
        ELSE FileResult(f, NoError,
                        FileOf(name, <<Len(f[fullName].data)>>, <<>>, <<FlagTrue>>), 0)

fileExists(f, name) ==
    LET fullName == FullName[name]
        stat     == Stat(f, fullName)
    IN  IF stat = "ok"
        THEN IF f[fullName].dir
             THEN FileResult(f, errorDto(errNotAFile, name), NoFile, 0)
             ELSE FileResult(f, NoError,
                             FileOf(name, <<Len(f[fullName].data)>>, <<>>, <<FlagTrue>>), 0)
        ELSE IF stat = "ENOENT"
             THEN FileResult(f, NoError, FileOf(name, <<>>, <<>>, <<FlagFalse>>), 0)
             ELSE FileResult(f, errorDto(errRetrievingFileInfoFailed, name), NoFile, 0)

fileDelete_SizeAfter(f, name, denied) ==
    LET fullName == FullName[name]
        stat     == Stat(f, fullName)
        r        == Remove(f, fullName, denied)
    IN  IF stat = "ok"
        THEN IF f[fullName].dir
             THEN FileResult(f, errorDto(errNotAFile, name), NoFile, 0)
             ELSE IF r.ok
                  THEN FileResult(r.fs, NoError, File(name, <<0>>), 0)
                  ELSE FileResult(f, errorDto(errDeletingFileFailed, name), NoFile, 0)
        ELSE IF stat = "ENOENT"
             THEN FileResult(f, errorDto(errFileNotFound, name), NoFile, 0)
             ELSE FileResult(f, errorDto(errRetrievingFileInfoFailed, name), NoFile, 0)

fileDelete(f, name, denied) ==
    LET fullName == FullName[name]
        stat     == Stat(f, fullName)
        r        == Remove(f, fullName, denied)
    IN  IF stat = "ok"
        THEN IF f[fullName].dir
             THEN FileResult(f, errorDto(errNotAFile, name), NoFile, 0)
             ELSE IF r.ok
                  THEN FileResult(r.fs, NoError, File(name, <<Len(f[fullName].data)>>), 0)
                  ELSE FileResult(f, errorDto(errDeletingFileFailed, name), NoFile, 0)
        ELSE IF stat = "ENOENT"
             THEN FileResult(f, errorDto(errFileNotFound, name), NoFile, 0)
             ELSE FileResult(f, errorDto(errRetrievingFileInfoFailed, name), NoFile, 0)

(***************************************************************************)
(* filepath.Walk: the root is visited first; the entries of a directory    *)
(* are visited in name order, each directory followed at once by what it   *)
(* holds.  A root that cannot be examined is reported to the callback as   *)
(* an error.                                                               *)
(***************************************************************************)
RECURSIVE walk(_, _), walkNames(_, _, _)
walk_ChildrenFirst(f, path) ==
    IF IsDir(f, path)
    THEN walkNames(f, SortedByName(Children(f, path)), 1) \o <<path>>
    ELSE <<path>>

walk(f, path) ==
    IF IsDir(f, path)
    THEN <<path>> \o walkNames(f, SortedByName(Children(f, path)), 1)
    ELSE <<path>>

\* the loop of walk over the sorted entries of a directory
walkNames(f, entries, i) ==
    IF i > Len(entries) THEN <<>>
    ELSE walk(f, entries[i]) \o walkNames(f, entries, i + 1)

Walk(f, root) ==
    IF Exists(f, root) THEN [ok |-> TRUE, visited |-> walk(f, root)]
    ELSE [ok |-> FALSE, visited |-> <<>>]

\* strings.TrimPrefix
TrimPrefix(s, prefix) ==
    IF HasPrefix(s, prefix) THEN SubSeq(s, Len(prefix) + 1, Len(s)) ELSE s

errMsgCheckServerLogForDetails ==
    <<"c", "h", "e", "c", "k", " ", "s", "e", "r", "v", "e", "r", " ", "l", "o", "g", " ",
      "f", "o", "r", " ", "d", "e", "t", "a", "i", "l", "s">>

ListResult(f, err, list) ==
    [fs |-> f, err |-> err, file |-> NoFile, dir |-> NoDirectory, status |-> 0,
     out |-> <<>>, opens |-> 0, closed |-> 0, list |-> list]

RECURSIVE dirList_WithFiles(_, _, _, _)
dirList_WithFiles(f, fullName, visited, i) ==
    IF i > Len(visited) THEN <<>>
    ELSE IF visited[i] # fullName
         THEN <<TrimPrefix(visited[i], fullName)>>
                  \o dirList_WithFiles(f, fullName, visited, i + 1)
         ELSE dirList_WithFiles(f, fullName, visited, i + 1)

\* the callback of directoryList over the paths visited: every directory
\* but the start is appended without the start's prefix
RECURSIVE dirList(_, _, _, _)
dirList(f, fullName, visited, i) ==
    IF i > Len(visited) THEN <<>>
    ELSE IF visited[i] # fullName /\ f[visited[i]].dir
         THEN <<TrimPrefix(visited[i], fullName)>> \o dirList(f, fullName, visited, i + 1)
         ELSE dirList(f, fullName, visited, i + 1)

directoryList(f, name) ==
    LET fullName == FullName[name]
        w        == Walk(f, fullName)
    IN  IF ~w.ok
        THEN ListResult(f, errorDto(errWalkingDirectoryTreeFailed,
                                    errMsgCheckServerLogForDetails), <<>>)
        ELSE ListResult(f, NoError, <<RootSymbol>> \o dirList(f, fullName, w.visited, 1))

(***************************************************************************)
(* directoryTree.  The Directory values it allocates are kept in a heap    *)
(* (`nodes`), each under the path it was made for; a *Directory is such a  *)
(* path, and `directories` of a node holds the pointers to its children.   *)
(***************************************************************************)
NoNodes == [p \in {} |-> NoDirectory]

NoTree == [root |-> <<>>, nodes |-> NoNodes, lookup |-> {}]

\* Directory.AddDirectory at the node parent, for the new node path
AddDirectory(nodes, parent, path, name) ==
    [p \in DOMAIN nodes \cup {path} |->
        IF p = path THEN Directory(name, <<>>, <<>>)
        ELSE IF p = parent THEN [nodes[p] EXCEPT !.directories = Append(@, path)]
        ELSE nodes[p]]

\* Directory.AddFile at the node parent
AddFile(nodes, parent, name, size) ==
    [nodes EXCEPT ![parent].files = Append(@, File(name, <<size>>))]

\* the callback of directoryTree over the paths visited; `lookup` is the set
\* of paths that have a node
RECURSIVE treeVisit(_, _, _, _)
treeVisit(f, tree, visited, i) ==
    IF i > Len(visited) THEN tree
    ELSE LET path      == visited[i]
             parentDir == Dir(path)
         IN  IF path = tree.root \/ parentDir \notin tree.lookup
             THEN treeVisit(f, tree, visited, i + 1)
             ELSE IF f[path].dir
             THEN treeVisit(f, [tree EXCEPT
                                   !.nodes  = AddDirectory(@, parentDir, path, Base(path)),
                                   !.lookup = @ \cup {path}],
                            visited, i + 1)
             ELSE treeVisit(f, [tree EXCEPT
                                   !.nodes = AddFile(@, parentDir, Base(path),
                                                     Len(f[path].data))],
                            visited, i + 1)

\* the error of a walk whose root cannot be examined, returned as it is
PathError == ErrorDto("", "", "lstat: no such file or directory")

TreeResult(f, err, tree) ==
    [fs |-> f, err |-> err, file |-> NoFile, dir |-> NoDirectory, status |-> 0,
     out |-> <<>>, opens |-> 0, closed |-> 0, tree |-> tree]

directoryTree(f) ==
    LET rootDirectory == RootDirectory
        directory     == Directory(Base(rootDirectory), <<>>, <<>>)
        start         == [root   |-> rootDirectory,
                          nodes  |-> [p \in {rootDirectory} |-> directory],
                          lookup |-> {rootDirectory}]
        w             == Walk(f, rootDirectory)
    IN  IF ~w.ok THEN TreeResult(f, PathError, start)
        ELSE TreeResult(f, NoError, treeVisit(f, start, w.visited, 1))

(***************************************************************************)
(* The record of a completed call: its arguments, the filesystem it found  *)
(* and what it returned.                                                   *)
(***************************************************************************)
NoCall ==
    [op |-> "none", name |-> <<>>, path |-> <<>>, body |-> <<>>, offset |-> 0,
     size |-> 0, all |-> FALSE, denied |-> {}, pre |-> EmptyRoot, err |-> NoError,
     file |-> NoFile, dir |-> NoDirectory, status |-> 0, out |-> <<>>, opens |-> 0,
     closed |-> 0, list |-> <<>>, tree |-> NoTree, fault |-> NoFault,
     resp |-> NewResponse]

Call(op, name, path) ==
    [NoCall EXCEPT !.op = op, !.name = name, !.path = path, !.pre = fs]

Returned(call, r) ==
    [call EXCEPT !.err = r.err, !.file = r.file, !.dir = r.dir, !.status = r.status,
                 !.out = r.out, !.opens = r.opens, !.closed = r.closed]

Failed(call) == call.err # NoError

\* the fileAppend requests being served at the same time, one goroutine
\* each: where the request stands, the bytes its decoder delivers and
\* whether the stream decodes to its end, the bytes not yet written, the
\* position of its descriptor, and what it returned; `initial` is the
\* content of the file when the first of them opened it
AppendRequests == 1..2

IdleRequest ==
    [pc |-> "idle", name |-> <<>>, path |-> <<>>, bytes |-> <<>>, ok |-> TRUE,
     remaining |-> <<>>, offset |-> 0, err |-> NoError, file |-> NoFile]

NoneRunning == [initial |-> <<>>, req |-> [id \in AppendRequests |-> IdleRequest]]

Init ==
    /\ fs = EmptyRoot
    /\ last = NoCall
    /\ prev = NoCall
    /\ running = NoneRunning

(***************************************************************************)
(* Requests.                                                               *)
(***************************************************************************)
\* the path resolver applied to a raw name
Resolve(name) ==
    /\ last.op = "none"
    /\ last' = Call("prepareAbsolutePath", name, prepareAbsolutePath(RootDirectory, name))
    /\ UNCHANGED <<fs, running>>

FileWrite(name, body) ==
    LET r == fileWrite(fs, name, body)
    IN  /\ fs' = r.fs
        /\ UNCHANGED running
        /\ last' = Returned([Call("fileWrite", name, FullName[name]) EXCEPT !.body = body], r)

FileAppend(name, body) ==
    LET r == fileAppend(fs, name, body)
    IN  /\ \A p \in DOMAIN r.fs : Len(r.fs[p].data) <= MaxFileLen
        /\ fs' = r.fs
        /\ UNCHANGED running
        /\ last' = Returned([Call("fileAppend", name, FullName[name]) EXCEPT !.body = body], r)

ReadFile(name, offset, size) ==
    LET r == readFile(fs, name, offset, size, NoFault)
    IN  /\ fs' = r.fs
        /\ UNCHANGED running
        /\ last' = Returned([Call("readFile", name, FullName[name]) EXCEPT !.offset = offset,
                                                             !.size = size], r)

FileExists(name) ==
    LET r == fileExists(fs, name)
    IN  /\ fs' = r.fs
        /\ UNCHANGED running
        /\ last' = Returned(Call("fileExists", name, FullName[name]), r)

FileDelete(name, denied) ==
    LET r == fileDelete(fs, name, denied)
    IN  /\ fs' = r.fs
        /\ UNCHANGED running
        /\ last' = Returned([Call("fileDelete", name, FullName[name])
                                 EXCEPT !.denied = denied], r)

FileChecksum(name, fault) ==
    LET r == fileChecksum(fs, name, fault)
    IN  /\ fs' = r.fs
        /\ UNCHANGED running
        /\ last' = Returned([Call("fileChecksum", name, FullName[name])
                                 EXCEPT !.fault = fault], r)

HandlerFileRead(name, offset, size, fault) ==
    LET h == handlerFileRead(fs, name, offset, size, fault)
    IN  /\ fs' = h.result.fs
        /\ UNCHANGED running
        /\ last' = Returned([Call("handlerFileRead", name, FullName[name])
                                 EXCEPT !.offset = offset, !.size = size, !.fault = fault,
                                        !.resp = h.resp], h.result)

HandlerFileShared(name, fault) ==
    LET h == handlerFileShared(fs, name, fault)
    IN  /\ fs' = h.result.fs
        /\ UNCHANGED running
        /\ last' = Returned([Call("handlerFileShared", name, FullName[name])
                                 EXCEPT !.fault = fault, !.resp = h.resp], h.result)

\* the position of a write on a descriptor opened with O_APPEND: the end of
\* the file, whatever the descriptor's own position
AppendPosition_Descriptor(data, offset) == offset

AppendPosition(data, offset) == Len(data)

\* write(2) of bytes at the position pos of the file
WriteAt(data, pos, bytes) ==
    SubSeq(data, 1, pos) \o bytes \o SubSeq(data, pos + Len(bytes) + 1, Len(data))

\* fileAppend up to the open of the file
AppendOpen(id, name, body) ==
    LET fullName == FullName[name]
        o        == OpenCreate(fs, fullName)
        d        == Decode(body)
        first    == \A other \in AppendRequests : running.req[other].pc = "idle"
    IN  /\ running.req[id].pc = "idle"
        /\ fs' = o.fs
        /\ running' =
               [initial |-> IF first /\ o.ok THEN o.fs[fullName].data ELSE running.initial,
                req     |-> [running.req EXCEPT ![id] =
                                IF o.ok
                                THEN [IdleRequest EXCEPT !.pc = "copy", !.name = name,
                                                         !.path = fullName, !.bytes = d.bytes,
                                                         !.ok = d.ok, !.remaining = d.bytes]
                                ELSE [IdleRequest EXCEPT
                                         !.pc = "done", !.name = name, !.path = fullName,
                                         !.err = errorDto(errOpeningFileForAppendFailed, name)]]]
        /\ UNCHANGED <<last, prev>>

\* one Write of io.Copy(file, decoder): the next k decoded bytes
AppendWrite(id, k) ==
    LET r    == running.req[id]
        data == fs[r.path].data
        pos  == AppendPosition(data, r.offset)
    IN  /\ r.pc = "copy"
        /\ k \in 1..Len(r.remaining)
        /\ fs' = With(fs, r.path, FileNode(WriteAt(data, pos, SubSeq(r.remaining, 1, k))))
        /\ running' = [running EXCEPT
                          !.req[id].offset = pos + k,
                          !.req[id].remaining = SubSeq(r.remaining, k + 1, Len(r.remaining))]
        /\ UNCHANGED <<last, prev>>

\* the end of io.Copy: file.Stat and the File returned, or the error of a
\* stream that does not decode
AppendReturn(id) ==
    LET r == running.req[id]
    IN  /\ r.pc = "copy"
        /\ r.remaining = <<>>
        /\ running' = [running EXCEPT
                          !.req[id].pc = "done",
                          !.req[id].file = IF r.ok THEN File(r.name, <<Len(fs[r.path].data)>>)
                                           ELSE NoFile,
                          !.req[id].err = IF r.ok THEN NoError
                                          ELSE errorDto(errAppendingFileFailed, r.name)]
        /\ UNCHANGED <<fs, last, prev>>

DirectoryContent(name) ==
    LET r == directoryContent(fs, name)
    IN  /\ fs' = r.fs
        /\ UNCHANGED running
        /\ last' = Returned(Call("directoryContent", name, FullName[name]), r)

CreateDirectory(name, all) ==
    LET r == createDirectory(fs, name, all)
    IN  /\ fs' = r.fs
        /\ UNCHANGED running
        /\ last' = Returned([Call("createDirectory", name, FullName[name])
                                 EXCEPT !.all = all], r)

DirectoryList(name) ==
    LET r == directoryList(fs, name)
    IN  /\ fs' = r.fs
        /\ UNCHANGED running
        /\ last' = [Returned(Call("directoryList", name, FullName[name]), r)
                        EXCEPT !.list = r.list]

DirectoryTree ==
    LET r == directoryTree(fs)
    IN  /\ fs' = r.fs
        /\ UNCHANGED running
        /\ last' = [Returned(Call("directoryTree", <<>>, RootDirectory), r)
                        EXCEPT !.tree = r.tree]

DeleteDirectory(name, all, denied) ==
    LET r == deleteDirectory(fs, name, all, denied)
    IN  /\ fs' = r.fs
        /\ UNCHANGED running
        /\ last' = Returned([Call("deleteDirectory", name, FullName[name])
                                 EXCEPT !.all = all, !.denied = denied], r)

(***************************************************************************)
(* Inputs.                                                                 *)
(***************************************************************************)
\* every raw name up to the bound
RawNames == StringsUpTo(MaxNameLen)

Contents == SeqsUpTo(ByteValues, MaxBodyLen)

\* a stream that ends inside its first quantum, and one that ends inside
\* its second
CorruptBodies == {<<19>>, <<19, 19, 19, 19, 19>>}

Bodies == {Encode(b) : b \in Contents} \cup CorruptBodies

Offsets == -1..(MaxFileLen + 1)

Sizes == -1..(MaxFileLen + 1)

\* the body of the files the directory engine's specification writes
SmallBody == Encode(<<77>>)

\* the entries whose removal the operating system refuses during a call:
\* none, or one entry below the root
Refusals(f) == {{}} \cup {{p} : p \in DOMAIN f \ {RootDirectory}}

(***************************************************************************)
(* Specifications.                                                         *)
(***************************************************************************)
\* the directory engine, with file writes to populate the directories
Next ==
    \/ \E name \in DirNames, all \in BOOLEAN :
           CreateDirectory(name, all) /\ UNCHANGED prev
    \/ \E name \in DirNames : FileWrite(name, SmallBody) /\ UNCHANGED prev
    \/ \E name \in DirNames : DirectoryContent(name) /\ UNCHANGED prev
    \/ \E name \in DirNames : DirectoryList(name) /\ UNCHANGED prev
    \/ DirectoryTree /\ UNCHANGED prev
    \/ \E name \in DirNames, all \in BOOLEAN, denied \in Refusals(fs) :
           DeleteDirectory(name, all, denied) /\ UNCHANGED prev

Spec == Init /\ [][Next]_vars

\* the path resolver over every raw name
NextPath == \E name \in RawNames : Resolve(name) /\ UNCHANGED prev

SpecPath == Init /\ [][NextPath]_vars

\* the file engine on the files of the root directory
NextFile ==
    \/ \E name \in FileNames, body \in Bodies : FileWrite(name, body) /\ UNCHANGED prev
    \/ \E name \in FileNames, body \in Bodies : FileAppend(name, body) /\ UNCHANGED prev
    \/ \E name \in FileNames, offset \in Offsets, size \in Sizes :
           ReadFile(name, offset, size) /\ UNCHANGED prev
    \/ \E name \in FileNames : FileExists(name) /\ UNCHANGED prev
    \/ \E name \in FileNames, denied \in Refusals(fs) :
           FileDelete(name, denied) /\ UNCHANGED prev

SpecFile == Init /\ [][NextFile]_vars

\* a file write, then the read of what it wrote: offset 0 and the size the
\* write reported
ReadBack ==
    /\ last.op = "fileWrite"
    /\ ~Failed(last)
    /\ ReadFile(last.name, 0, last.file.size[1])

NextRoundTrip ==
    \/ \E name \in FileNames, body \in Bodies : FileWrite(name, body) /\ prev' = NoCall
    \/ ReadBack /\ prev' = last

SpecRoundTrip == Init /\ [][NextRoundTrip]_vars

\* two file appends in a row
AppendNames == { <<"/", ".", "/", "a">> }

NextAppend ==
    \E name \in AppendNames, body \in Bodies : FileAppend(name, body) /\ prev' = last

SpecAppend == Init /\ [][NextAppend]_vars

\* the failures a streaming request may meet
Faults ==
    {NoFault, Fault("open", 0), Fault("seek", 0)}
        \cup {Fault(at, after) : at \in {"read", "send"}, after \in 0..1}

StreamOffsets == 0..1

StreamSizes == {1, MaxFileLen}

\* the server runs until log.Fatal ends it
Serving == ~last.resp.fatal

\* the file engine's requests that open a file, with the failures of the
\* operating system and of the connection; log.Fatal ends the server
NextStream ==
    \/ \E name \in FileNames, body \in CorruptBodies \cup {SmallBody} :
           Serving /\ FileWrite(name, body) /\ UNCHANGED prev
    \/ \E name \in FileNames, body \in Bodies :
           Serving /\ FileAppend(name, body) /\ UNCHANGED prev
    \/ \E name \in FileNames, offset \in StreamOffsets, size \in StreamSizes,
          fault \in Faults :
           Serving /\ HandlerFileRead(name, offset, size, fault) /\ UNCHANGED prev
    \/ \E name \in FileNames, fault \in Faults :
           Serving /\ HandlerFileShared(name, fault) /\ UNCHANGED prev
    \/ \E name \in FileNames, fault \in Faults :
           Serving /\ FileChecksum(name, fault) /\ UNCHANGED prev

SpecStream == Init /\ [][NextStream]_vars

\* two fileAppend requests on one file, their writes interleaved in every
\* way, after the file has been written or not
NoneStarted == \A id \in AppendRequests : running.req[id].pc = "idle"

NextConcurrent ==
    \/ \E name \in AppendNames, body \in Bodies :
           NoneStarted /\ last.op = "none" /\ FileWrite(name, body) /\ UNCHANGED prev
    \/ \E id \in AppendRequests, name \in AppendNames, body \in Bodies :
           AppendOpen(id, name, body)
    \/ \E id \in AppendRequests, k \in 1..MaxBodyLen : AppendWrite(id, k)
    \/ \E id \in AppendRequests : AppendReturn(id)

SpecConcurrent == Init /\ [][NextConcurrent]_vars

(***************************************************************************)
(* Properties of the path resolver.                                        *)
(***************************************************************************)
Resolved == last.op = "prepareAbsolutePath"

PreData == IF IsFile(last.pre, last.path) THEN last.pre[last.path].data ELSE <<>>

Wrote == last.op = "fileWrite" /\ ~Failed(last)

\* C2: after a successful fileWrite, whatever the file held before, the
\* file's content is exactly the decoded body and the returned size is the
\* length of the decoded body.
C2_WriteReplacesContent ==
    Wrote => /\ IsFile(fs, last.path)
             /\ fs[last.path].data = Decode(last.body).bytes
             /\ last.file.size = <<Len(Decode(last.body).bytes)>>

\* C3: a successful fileWrite of encode(B) followed by readFile of the same
\* name at offset 0 with the size the write reported succeeds and streams
\* exactly encode(B), so that decoding the output gives B.
C3_WriteReadRoundTrip ==
    (/\ last.op = "readFile"
     /\ prev.op = "fileWrite"
     /\ ~Failed(prev)
     /\ last.name = prev.name
     /\ last.offset = 0
     /\ last.size = prev.file.size[1])
    => /\ ~Failed(last)
       /\ last.out = prev.body
       /\ Decode(last.out).bytes = Decode(prev.body).bytes

\* the content of the file before the first of two calls in a row
PrevData == IF IsFile(prev.pre, prev.path) THEN prev.pre[prev.path].data ELSE <<>>

\* C4: fileAppend never truncates, and two successful appends of A and then
\* B to a file holding C (empty if absent) leave C, A, B in this order; the
\* first reports size len(C)+len(A), the second the total
\* len(C)+len(A)+len(B).
C4_AppendTwice ==
    /\ (last.op = "fileAppend" /\ IsFile(fs, last.path))
           => HasPrefix(fs[last.path].data, PreData)
    /\ (/\ last.op = "fileAppend" /\ ~Failed(last)
        /\ prev.op = "fileAppend" /\ ~Failed(prev)
        /\ last.path = prev.path)
       => LET C == PrevData
              A == Decode(prev.body).bytes
              B == Decode(last.body).bytes
          IN  /\ fs[last.path].data = C \o A \o B
              /\ prev.file.size = <<Len(C) + Len(A)>>
              /\ last.file.size = <<Len(C) + Len(A) + Len(B)>>

\* two non-empty appends in a row to a file that held content
C4_Witness ==
    /\ last.op = "fileAppend" /\ ~Failed(last)
    /\ prev.op = "fileAppend" /\ ~Failed(prev)
    /\ last.path = prev.path
    /\ PrevData = <<77>>
    /\ Decode(prev.body).bytes = <<255>>
    /\ Decode(last.body).bytes = <<77>>
    /\ fs[last.path].data = <<77, 255, 77>>

\* a read whose window runs past the end of an existing regular file
ReadPastEnd ==
    /\ last.op = "readFile"
    /\ IsFile(last.pre, last.path)
    /\ 0 <= last.offset /\ last.offset <= Len(PreData)
    /\ last.size > 0
    /\ last.offset + last.size > Len(PreData)

\* C5: readFile on an existing regular file with 0 <= offset <= fileSize
\* and size > 0 whose offset+size exceeds fileSize returns no error and
\* streams exactly the bytes from offset to the end of the file.
C5_ReadClamped ==
    ReadPastEnd => /\ ~Failed(last)
                   /\ last.out = Encode(SubSeq(PreData, last.offset + 1, Len(PreData)))

InvalidOffset == last.offset < 0 \/ last.offset > Len(PreData)

InvalidSize == last.size <= 0 \/ last.size > Len(PreData)

NothingSent == last.status = 0 /\ last.out = <<>> /\ last.opens = 0

OffsetDetail ==
    <<"o", "f", "f", "s", "e", "t", " ", "(">> \o FormatInt(last.offset) \o <<")">>

SizeDetail ==
    <<"s", "i", "z", "e", " ", "(">> \o FormatInt(last.size) \o <<")">>

\* C6 as stated: readFile classifies its failures in a fixed order: an
\* absent path gives FileNotFound, a directory NotAFile, then an offset
\* outside 0..fileSize InvalidParameterValue, then a size outside
\* 1..fileSize InvalidParameterValue; in each case nothing has been sent
\* and no file has been opened.
C6_ReadFailureOrder ==
    last.op = "readFile" =>
        /\ ~Exists(last.pre, last.path)
               => last.err = errorDto(errFileNotFound, last.name) /\ NothingSent
        /\ IsDir(last.pre, last.path)
               => last.err = errorDto(errNotAFile, last.name) /\ NothingSent
        /\ (IsFile(last.pre, last.path) /\ InvalidOffset)
               => last.err = errorDto(errInvalidParameterValue, OffsetDetail) /\ NothingSent
        /\ (IsFile(last.pre, last.path) /\ ~InvalidOffset /\ InvalidSize)
               => last.err = errorDto(errInvalidParameterValue, SizeDetail) /\ NothingSent

\* C6 amended: as C6, but an absent path gives FileNotFound only when no
\* regular file lies on the path; a path that runs through a regular file
\* gives RetrievingFileInfoFailed, also with nothing sent and nothing opened.
C6_ReadFailureOrderStat ==
    last.op = "readFile" =>
        /\ (~Exists(last.pre, last.path) /\ ~IsFile(last.pre, Dir(last.path)))
               => last.err = errorDto(errFileNotFound, last.name) /\ NothingSent
        /\ (~Exists(last.pre, last.path) /\ IsFile(last.pre, Dir(last.path)))
               => last.err = errorDto(errRetrievingFileInfoFailed, last.name) /\ NothingSent
        /\ IsDir(last.pre, last.path)
               => last.err = errorDto(errNotAFile, last.name) /\ NothingSent
        /\ (IsFile(last.pre, last.path) /\ InvalidOffset)
               => last.err = errorDto(errInvalidParameterValue, OffsetDetail) /\ NothingSent
        /\ (IsFile(last.pre, last.path) /\ ~InvalidOffset /\ InvalidSize)
               => last.err = errorDto(errInvalidParameterValue, SizeDetail) /\ NothingSent

\* a read with both the offset and the size out of range has been refused
C6_Witness ==
    /\ last.op = "readFile"
    /\ IsFile(last.pre, last.path)
    /\ Len(PreData) = 2
    /\ last.offset = 3
    /\ last.size = 0
    /\ last.err = errorDto(errInvalidParameterValue, OffsetDetail)
    /\ NothingSent

(***************************************************************************)
(* Properties of the directory engine.                                     *)
(***************************************************************************)
Deleted == last.op = "deleteDirectory"

\* the directory engine never removes the root directory
RootSurvives == IsDir(fs, RootDirectory)

\* C7: recursive delete of a directory D other than the root, whatever
\* files and subdirectories D holds, succeeds and leaves neither D nor any
\* former descendant of D (the operating system refusing no removal).
C7_RecursiveDeleteRemovesSubtree ==
    (/\ Deleted /\ last.all
     /\ last.path # RootDirectory
     /\ IsDir(last.pre, last.path)
     /\ last.denied = {})
    => /\ ~Failed(last)
       /\ \A p \in Subtree(last.pre, last.path) : ~Exists(fs, p)

\* C8: recursive delete of the root removes every child of the root and
\* never the root: it returns a Directory named with the root symbol, and
\* directoryContent("/") then succeeds and lists no directory and no file.
C8_RootPurgedNotRemoved ==
    /\ RootSurvives
    /\ (Deleted /\ last.all /\ last.path = RootDirectory /\ last.denied = {})
           => ~Failed(last)
    /\ (Deleted /\ last.all /\ last.path = RootDirectory /\ ~Failed(last))
           => /\ DOMAIN fs = {RootDirectory}
              /\ last.dir = Directory(RootSymbol, <<>>, <<>>)
              /\ LET c == directoryContent(fs, <<"/">>)
                 IN  /\ c.err = NoError
                     /\ c.dir = Directory(RootSymbol, <<>>, <<>>)

\* the root, holding a directory with entries of its own and a file, has
\* been purged through a name that resolves to it
C8_Witness ==
    /\ Deleted /\ last.all /\ ~Failed(last)
    /\ last.name = <<"/", "a", "/", ".", ".">>
    /\ last.path = RootDirectory
    /\ IsDir(last.pre, <<"/", "r", "/", "a">>)
    /\ IsFile(last.pre, <<"/", "r", "/", "a", "/", "a">>)
    /\ IsDir(last.pre, <<"/", "r", "/", "a", "/", "b">>)
    /\ IsFile(last.pre, <<"/", "r", "/", "b">>)
    /\ DOMAIN fs = {RootDirectory}

\* C9: non-recursive delete removes the target only when it is an empty
\* directory; on a non-empty directory it returns DeleteFailed and leaves
\* the filesystem unchanged; on the root it has no effect and succeeds.
C9_PlainDeleteOnlyEmptyDirectory ==
    (Deleted /\ ~last.all) =>
        /\ fs # last.pre
               => /\ IsDir(last.pre, last.path)
                  /\ Children(last.pre, last.path) = {}
                  /\ fs = Without(last.pre, {last.path})
        /\ (/\ IsDir(last.pre, last.path)
            /\ last.path # RootDirectory
            /\ Children(last.pre, last.path) # {})
               => /\ last.err = errorDto(errDeletingDirectoryFailed, last.name)
                  /\ fs = last.pre
        /\ last.path = RootDirectory
               => /\ ~Failed(last)
                  /\ fs = last.pre
                  /\ last.dir = Directory(RootSymbol, <<>>, <<>>)

\* the removal of an entry failed during a recursive delete: the error
\* carries the path of the entry, not the name of the request
ChildRemovalFailed ==
    /\ Deleted /\ last.all
    /\ last.err.title \in {errDeletingDirectoryFailed.title, errDeletingFileFailed.title}
    /\ last.err.detail # last.name

\* C10: in a recursive delete the first child whose removal fails ends the
\* call: the error's detail names that child, the children before it stay
\* removed, no later child is removed and the target is not removed.
C10_FirstFailureAborts ==
    ChildRemovalFailed =>
        LET kids == SortedByName(Children(last.pre, last.path))
        IN  \E i \in 1..Len(kids) :
                /\ last.err.detail = kids[i]
                /\ Exists(fs, kids[i])
                /\ \A j \in 1..(i - 1) : Subtree(last.pre, kids[j]) \cap DOMAIN fs = {}
                /\ \A j \in (i + 1)..Len(kids) :
                       \A p \in Subtree(last.pre, kids[j]) :
                           Exists(fs, p) /\ fs[p] = last.pre[p]
                /\ Exists(fs, last.path)

(***************************************************************************)
(* Properties of createDirectory.                                          *)
(***************************************************************************)
Created == last.op = "createDirectory"

\* C11: createDirectory on a path that is already a directory returns
\* AlreadyExists without the flag and succeeds with it, leaving the
\* filesystem as it was in both cases; so after a successful
\* createDirectory(name, all=true) the same call again changes nothing.
C11_CreateExistingDirectory ==
    /\ (Created /\ IsDir(last.pre, last.path))
           => /\ fs = last.pre
              /\ ~last.all => last.err = errorDto(errDirectoryAlreadyExists, last.name)
              /\ last.all => ~Failed(last)
    /\ (Created /\ last.all /\ ~Failed(last))
           => /\ IsDir(fs, last.path)
              /\ LET again == createDirectory(fs, last.name, TRUE)
                 IN  again.fs = fs /\ again.err = NoError

\* a directory holding an entry has been created again without the flag
C11_Witness ==
    /\ Created /\ ~last.all
    /\ last.path = <<"/", "r", "/", "a">>
    /\ IsDir(last.pre, last.path)
    /\ Children(last.pre, last.path) # {}
    /\ last.err = errorDto(errDirectoryAlreadyExists, last.name)

\* a chain of directories made in one call has been made again with the flag
C11_WitnessAll ==
    /\ Created /\ last.all /\ ~Failed(last)
    /\ last.path = <<"/", "r", "/", "a", "/", "b">>
    /\ IsDir(last.pre, last.path)

(***************************************************************************)
(* Properties of directoryList.                                            *)
(***************************************************************************)
Listed == last.op = "directoryList"

\* the directories below the directory start
DirsBelow(f, start) == {p \in Subtree(f, start) \ {start} : f[p].dir}

\* the path that the i-th element of the returned list stands for
ListedPath(i) == last.path \o last.list[i]

\* C12: directoryList on an existing directory succeeds with a list that
\* starts with "/" and goes on with exactly the directories below the start
\* path, no file, each once, as paths relative to the resolved start path,
\* every directory after its parent and the entries of one directory in
\* name order; from a root holding only /a and /a/b, directoryList("/")
\* returns <<"/", "/a", "/a/b">>.
C12_ListIsDirectoriesInWalkOrder ==
    (Listed /\ IsDir(last.pre, last.path)) =>
        LET n == Len(last.list)
        IN  /\ ~Failed(last)
            /\ fs = last.pre
            /\ n = 1 + Cardinality(DirsBelow(last.pre, last.path))
            /\ last.list[1] = <<"/">>
            /\ {ListedPath(i) : i \in 2..n} = DirsBelow(last.pre, last.path)
            /\ \A i \in 2..n :
                   \/ IsChild(last.path, ListedPath(i))
                   \/ \E j \in 2..(i - 1) : IsChild(ListedPath(j), ListedPath(i))
            /\ \A i, j \in 2..n :
                   (/\ i < j
                    /\ \E d \in DOMAIN last.pre :
                           IsChild(d, ListedPath(i)) /\ IsChild(d, ListedPath(j)))
                   => StringLess(Base(ListedPath(i)), Base(ListedPath(j)))
            /\ (/\ last.path = RootDirectory
                /\ DOMAIN last.pre = {RootDirectory, <<"/", "r", "/", "a">>,
                                      <<"/", "r", "/", "a", "/", "b">>}
                /\ \A p \in DOMAIN last.pre : last.pre[p].dir)
               => last.list = << <<"/">>, <<"/", "a">>, <<"/", "a", "/", "b">> >>

\* the root, holding directories two levels deep and a file among them, has
\* been listed
C12_Witness ==
    /\ Listed /\ ~Failed(last)
    /\ last.path = RootDirectory
    /\ IsFile(last.pre, <<"/", "r", "/", "a", "/", "a">>)
    /\ last.list = << <<"/">>, <<"/", "a">>, <<"/", "a", "/", "b">>, <<"/", "b">>,
                      <<"/", "b", "/", "a">> >>

\* a directory below the root has been listed: the paths are relative to it
C12_WitnessBelowRoot ==
    /\ Listed /\ ~Failed(last)
    /\ last.path = <<"/", "r", "/", "a">>
    /\ IsDir(last.pre, <<"/", "r", "/", "b">>)
    /\ last.list = << <<"/">>, <<"/", "b">> >>

(***************************************************************************)
(* Properties of fileExists and fileDelete.                                *)
(***************************************************************************)
\* path is absent and runs through a regular file
ThroughFile(f, path) ==
    /\ ~Exists(f, path)
    /\ \E q \in DOMAIN f : IsFile(f, q) /\ Below(q, path)

AbsentFile == FileOf(last.name, <<>>, <<>>, <<FALSE>>)

PresentFile == FileOf(last.name, <<Len(PreData)>>, <<>>, <<TRUE>>)

\* C13 as stated: fileExists never reports an absent path as an error: it
\* returns {name, exists: false} without a size for an absent path,
\* {name, size, exists: true} for a regular file and NotAFile for a
\* directory, and never changes the filesystem.
C13_ExistsNeverFailsOnAbsent ==
    last.op = "fileExists" =>
        /\ fs = last.pre
        /\ ~Exists(last.pre, last.path) => ~Failed(last) /\ last.file = AbsentFile
        /\ IsFile(last.pre, last.path) => ~Failed(last) /\ last.file = PresentFile
        /\ IsDir(last.pre, last.path)
               => last.err = errorDto(errNotAFile, last.name) /\ last.file = NoFile

\* C13 amended: as C13, but an absent path is reported as {name, exists:
\* false} only when no regular file lies on the path; a path that runs
\* through a regular file gives RetrievingFileInfoFailed.
C13_ExistsByStat ==
    last.op = "fileExists" =>
        /\ fs = last.pre
        /\ (~Exists(last.pre, last.path) /\ ~ThroughFile(last.pre, last.path))
               => ~Failed(last) /\ last.file = AbsentFile
        /\ ThroughFile(last.pre, last.path)
               => /\ last.err = errorDto(errRetrievingFileInfoFailed, last.name)
                  /\ last.file = NoFile
        /\ IsFile(last.pre, last.path) => ~Failed(last) /\ last.file = PresentFile
        /\ IsDir(last.pre, last.path)
               => last.err = errorDto(errNotAFile, last.name) /\ last.file = NoFile

\* a file that the root does not hold has been asked for
C13_Witness ==
    /\ last.op = "fileExists"
    /\ last.name = <<"/", ".", "/", "a">>
    /\ ~Exists(last.pre, last.path)
    /\ DOMAIN last.pre = {RootDirectory}
    /\ ~Failed(last)
    /\ last.file = AbsentFile

\* a file holding two bytes has been asked for
C13_WitnessPresent ==
    /\ last.op = "fileExists"
    /\ IsFile(last.pre, last.path)
    /\ Len(PreData) = 2
    /\ last.file = PresentFile

FileDeleted == last.op = "fileDelete"

Streaming ==
    /\ last.op \in {"handlerFileRead", "handlerFileShared"}
    /\ last.status = 200

\* C15: once a streaming response has sent the 200 status, a failure of the
\* copy does not change the status and is logged only: the response keeps
\* the status 200 and its body holds file content and nothing else.
C15_OnlyContentAfterStatus ==
    Streaming =>
        /\ last.resp.wroteHeader
        /\ last.resp.status = 200
        /\ \A i \in DOMAIN last.resp.body : last.resp.body[i].kind = "content"

\* the calls of the file engine that open a file
OpensFile ==
    last.op \in {"fileWrite", "fileAppend", "readFile", "handlerFileRead", "fileChecksum",
                 "handlerFileShared"}

\* the descriptors a returned call still holds
Held == last.opens - last.closed

C16_WitnessCopy ==
    /\ last.op = "handlerFileShared"
    /\ last.fault = Fault("read", 1)
    /\ last.err = errorDto(errReadingFileFailed, last.name)
    /\ last.out = <<77>>
    /\ last.opens = 1
    /\ Held = 0

(***************************************************************************)
(* Properties of directoryTree.                                            *)
(***************************************************************************)
TreeRead == last.op = "directoryTree"

\* how often the value x occurs in the sequence s
Occurrences(s, x) == Cardinality({i \in DOMAIN s : s[i] = x})

\* the number of entries that the nodes at `paths` hold
RECURSIVE TreeEntries(_)
TreeEntries(paths) ==
    IF paths = {} THEN 0
    ELSE LET p == CHOOSE q \in paths : TRUE
         IN  Len(last.tree.nodes[p].directories) + Len(last.tree.nodes[p].files)
                 + TreeEntries(paths \ {p})

\* C17: over the pre-order walk of the root, directoryTree misses no parent
\* lookup: the root node carries the base name of the root directory, and
\* every directory and every file below the root occurs exactly once in the
\* tree, as a child of the node of its parent.
C17_TreeHoldsEveryEntryOnce ==
    TreeRead =>
        LET nodes == last.tree.nodes
        IN  /\ ~Failed(last)
            /\ fs = last.pre
            /\ last.tree.root = RootDirectory
            /\ nodes[RootDirectory].name = Base(RootDirectory)
            /\ DOMAIN nodes = {p \in DOMAIN last.pre : last.pre[p].dir}
            /\ \A p \in DOMAIN last.pre \ {RootDirectory} :
                   \A d \in DOMAIN nodes :
                       IF last.pre[p].dir
                       THEN /\ nodes[p].name = Base(p)
                            /\ Occurrences(nodes[d].directories, p)
                                   = IF IsChild(d, p) THEN 1 ELSE 0
                       ELSE IsChild(d, p)
                                => Occurrences(nodes[d].files,
                                               File(Base(p), <<Len(last.pre[p].data)>>)) = 1
            /\ TreeEntries(DOMAIN nodes) = Cardinality(DOMAIN last.pre) - 1

\* the tree of a root holding directories two levels deep and files on both
\* levels has been read
C17_Witness ==
    /\ TreeRead
    /\ IsDir(last.pre, <<"/", "r", "/", "a", "/", "b">>)
    /\ IsFile(last.pre, <<"/", "r", "/", "a", "/", "a">>)
    /\ IsFile(last.pre, <<"/", "r", "/", "b">>)
    /\ last.tree.nodes[RootDirectory] =
           Directory(<<"r">>, << <<"/", "r", "/", "a">> >>, <<File(<<"b">>, <<1>>)>>)
    /\ last.tree.nodes[<<"/", "r", "/", "a">>] =
           Directory(<<"a">>, << <<"/", "r", "/", "a", "/", "b">> >>, <<File(<<"a">>, <<1>>)>>)

\* C18: deleteDirectory on a directory D removes nothing outside the
\* subtree of D: every entry that is neither D nor below D is still there
\* with its content after the call, whether the call succeeded or failed.
C18_DeleteStaysInSubtree ==
    (Deleted /\ IsDir(last.pre, last.path)) =>
        \A p \in DOMAIN last.pre :
            ~Below(last.path, p) => Exists(fs, p) /\ fs[p] = last.pre[p]

(***************************************************************************)
(* Properties of concurrent appends.                                       *)
(***************************************************************************)
BothReturned ==
    \A id \in AppendRequests :
        running.req[id].pc = "done" /\ running.req[id].err = NoError

\* s is a and b shuffled, each in its own order
RECURSIVE IsMerge(_, _, _)
IsMerge(s, a, b) ==
    IF s = <<>> THEN a = <<>> /\ b = <<>>
    ELSE \/ a # <<>> /\ a[1] = s[1] /\ IsMerge(Tail(s), Tail(a), b)
         \/ b # <<>> /\ b[1] = s[1] /\ IsMerge(Tail(s), a, Tail(b))

\* C19: two fileAppend requests with the bodies A and B served at the same
\* time on one file, each writing its body in one or more chunks, lose no
\* byte: when both have returned without error the file is as long as its
\* initial content, A and B together, begins with the initial content and
\* goes on with the bytes of A and of B, and the size each request reports
\* is at most the final size.
C19_ConcurrentAppendsLoseNothing ==
    BothReturned =>
        LET path == running.req[1].path
            data == fs[path].data
            init == running.initial
            A    == running.req[1].bytes
            B    == running.req[2].bytes
        IN  /\ running.req[2].path = path
            /\ IsFile(fs, path)
            /\ Len(data) = Len(init) + Len(A) + Len(B)
            /\ SubSeq(data, 1, Len(init)) = init
            /\ IsMerge(SubSeq(data, Len(init) + 1, Len(data)), A, B)
            /\ \A id \in AppendRequests :
                   /\ running.req[id].file.size[1] <= Len(data)
                   /\ running.req[id].file.size[1]
                          >= Len(init) + Len(running.req[id].bytes)

\* two requests have appended to a file of one byte, the second between
\* the two chunks of the first and returning before the first's last chunk
C19_Witness ==
    /\ BothReturned
    /\ running.initial = <<77>>
    /\ running.req[1].bytes = <<255, 255>>
    /\ running.req[2].bytes = <<77>>
    /\ fs[running.req[1].path].data = <<77, 255, 77, 255>>
    /\ running.req[1].file.size = <<4>>
    /\ running.req[2].file.size = <<3>>

====
